---------------------------- MODULE Spec2Model ----------------------------
(***************************************************************************)
(* The resumable hyperparameter search of src/main.py: main() drives       *)
(* skopt's gp_minimize over fitness(), which wraps train(); a              *)
(* CheckpointSaver callback persists the observation history after every   *)
(* trial, and resume mode reloads the latest checkpoint.                   *)
(*                                                                         *)
(* One process runs at a time.  pc is the position of the running          *)
(* invocation inside main / gp_minimize / fitness / train; "idle" means no *)
(* process is running.  The checkpoint files outlive the process.          *)
(***************************************************************************)
EXTENDS Integers, Sequences, FiniteSets, TLC

(***************************************************************************)
(* Bounds of the model.                                                    *)
(***************************************************************************)
\* n_calls=200 of both gp_minimize calls, scaled down
NCalls == 2
\* skopt's default n_initial_points=10 (fresh start passes none), scaled down
NInitialPoints == 1
\* number of trials started in one behaviour, over all invocations
MaxTrials == 3
\* last minute the wall clock reaches
MaxMinute == 2

(***************************************************************************)
(* Strings that the code inspects character by character are sequences of  *)
(* characters, so that += and endswith are computed, not assumed.          *)
(***************************************************************************)
S_mean == <<"m", "e", "a", "n">>
S_mean_nn == <<"m", "e", "a", "n", "_", "n", "n">>
S_pool_nn == <<"p", "o", "o", "l", "_", "n", "n">>
S__edge == <<"_", "e", "d", "g", "e">>
S_edge == <<"e", "d", "g", "e">>

\* str.endswith
EndsWith(s, suf) ==
    /\ Len(s) >= Len(suf)
    /\ SubSeq(s, Len(s) - Len(suf) + 1, Len(s)) = suf

(***************************************************************************)
(* SearchableHyperparameters: the dimensions the claims read.  Real values *)
(* are in thousandths (delta 0.266 is 266).                                *)
(***************************************************************************)
AggregatorTypes == {S_mean, S_mean_nn, S_pool_nn}
EmbedDims == {"Very Small", "Small", "Medium", "Large", "Very Large"}
PopularityImportances == {"No", "Small", "Medium", "Large"}
NLayersLow == 3
NLayersHigh == 5
DeltaLow == 150
DeltaHigh == 350

\* default_parameters, restricted to the modelled dimensions
default_parameters ==
    [aggregator_type |-> S_mean_nn, delta |-> 266, embed_dim |-> "Medium",
     n_layers |-> 3, popularity_importance |-> "No"]

\* The points of the search space the optimizer proposes in the model: the
\* default point and one point for each other aggregator category.
Space ==
    { default_parameters,
      [aggregator_type |-> S_mean, delta |-> 150, embed_dim |-> "Small",
       n_layers |-> 4, popularity_importance |-> "Small"],
      [aggregator_type |-> S_pool_nn, delta |-> 350, embed_dim |-> "Large",
       n_layers |-> 5, popularity_importance |-> "Large"] }

\* the --duplicates option
Duplicates == {"keep_all", "keep_last", "count_occurrence"}

\* test-set recalls a training run returns, in percent
Recalls == {9, 20}

\* fixed_params.neighbor_sampler
NeighborSamplers == {"full", "partial"}

\* the (duplicates, neighbor_sampler) settings the invocations of the search
\* loop are started with: every value of each
Settings ==
    { <<"keep_all", "full">>, <<"keep_last", "partial">>,
      <<"count_occurrence", "partial">> }

\* the default of --item_id_type
DefaultItemIdType == "SPECIFIC ITEM IDENTIFIER"

\* the default of the counting flag --check_embedding
DefaultCheckEmbedding == 0

(***************************************************************************)
(* SearchableHyperparameters: the attributes of the object, dir() and the  *)
(* dimension list.  Attribute names are sequences of characters, so that   *)
(* the order of dir() and the test '__' not in attr are computed.          *)
(***************************************************************************)
N_aggregator_hetero ==
    <<"a", "g", "g", "r", "e", "g", "a", "t", "o", "r", "_", "h", "e", "t", "e", "r", "o">>
N_aggregator_type ==
    <<"a", "g", "g", "r", "e", "g", "a", "t", "o", "r", "_", "t", "y", "p", "e">>
N_clicks_sample ==
    <<"c", "l", "i", "c", "k", "s", "_", "s", "a", "m", "p", "l", "e">>
N_delta == <<"d", "e", "l", "t", "a">>
N_dropout == <<"d", "r", "o", "p", "o", "u", "t">>
N_embed_dim == <<"e", "m", "b", "e", "d", "_", "d", "i", "m">>
N_embedding_layer ==
    <<"e", "m", "b", "e", "d", "d", "i", "n", "g", "_", "l", "a", "y", "e", "r">>
N_lr == <<"l", "r">>
N_n_layers == <<"n", "_", "l", "a", "y", "e", "r", "s">>
N_neg_sample_size ==
    <<"n", "e", "g", "_", "s", "a", "m", "p", "l", "e", "_", "s", "i", "z", "e">>
N_norm == <<"n", "o", "r", "m">>
N_popularity_importance ==
    <<"p", "o", "p", "u", "l", "a", "r", "i", "t", "y", "_", "i", "m", "p", "o", "r", "t", "a", "n", "c", "e">>
N_purchases_sample ==
    <<"p", "u", "r", "c", "h", "a", "s", "e", "s", "_", "s", "a", "m", "p", "l", "e">>
N_use_recency == <<"u", "s", "e", "_", "r", "e", "c", "e", "n", "c", "y">>

\* names of the class, of which dir() lists many more; all hold '__'
N__class == <<"_", "_", "c", "l", "a", "s", "s", "_", "_">>
N__dict == <<"_", "_", "d", "i", "c", "t", "_", "_">>
N__doc == <<"_", "_", "d", "o", "c", "_", "_">>
N__init == <<"_", "_", "i", "n", "i", "t", "_", "_">>
N__module == <<"_", "_", "m", "o", "d", "u", "l", "e", "_", "_">>

\* the characters of the names, in the order of their code points
Chars ==
    <<"_", "a", "b", "c", "d", "e", "f", "g", "h", "i", "j", "k", "l", "m",
      "n", "o", "p", "q", "r", "s", "t", "u", "v", "w", "x", "y", "z">>

ord(c) == CHOOSE i \in 1..Len(Chars) : Chars[i] = c

\* s < t, the order of Python strings
StrLess(s, t) ==
    \E k \in 1..(Len(s) + 1) :
        /\ k <= Len(t)
        /\ \A i \in 1..(k - 1) : s[i] = t[i]
        /\ k = Len(s) + 1 \/ ord(s[k]) < ord(t[k])

\* sub in s
Contains(s, sub) ==
    \E i \in 0..(Len(s) - Len(sub)) :
        \A j \in 1..Len(sub) : s[i + j] = sub[j]

\* dir(obj): the names of the set, sorted
dir(names) ==
    [i \in 1..Cardinality(names) |->
        CHOOSE a \in names : Cardinality({b \in names : StrLess(b, a)}) = i - 1]

\* skopt dimensions; Real bounds and numeric categories in thousandths, lr
\* in hundred-thousandths
Categorical(cats, nm) ==
    [kind |-> "Categorical", categories |-> cats, low |-> 0, high |-> 0,
     name |-> nm]
Real(lo, hi, nm) ==
    [kind |-> "Real", categories |-> {}, low |-> lo, high |-> hi, name |-> nm]
Integer(lo, hi, nm) ==
    [kind |-> "Integer", categories |-> {}, low |-> lo, high |-> hi,
     name |-> nm]

\* a method or another attribute of the class
ClassAttribute(nm) ==
    [kind |-> "attribute", categories |-> {}, low |-> 0, high |-> 0,
     name |-> nm]

\* the assignments of __init__, in the order of the source
Assignments ==
    << <<N_aggregator_hetero,
         Categorical({"mean", "sum", "max"}, N_aggregator_hetero)>>,
       <<N_aggregator_type, Categorical(AggregatorTypes, N_aggregator_type)>>,
       <<N_clicks_sample, Categorical({200, 300, 400}, N_clicks_sample)>>,
       <<N_delta, Real(DeltaLow, DeltaHigh, N_delta)>>,
       <<N_dropout, Real(0, 800, N_dropout)>>,
       <<N_embed_dim, Categorical(EmbedDims, N_embed_dim)>>,
       <<N_embedding_layer, Categorical({TRUE, FALSE}, N_embedding_layer)>>,
       <<N_lr, Real(10, 1000, N_lr)>>,
       <<N_n_layers, Integer(NLayersLow, NLayersHigh, N_n_layers)>>,
       <<N_neg_sample_size, Integer(700, 3000, N_neg_sample_size)>>,
       <<N_norm, Categorical({TRUE, FALSE}, N_norm)>>,
       <<N_popularity_importance,
         Categorical(PopularityImportances, N_popularity_importance)>>,
       <<N_purchases_sample, Categorical({400, 500, 600}, N_purchases_sample)>>,
       <<N_use_recency, Categorical({TRUE, FALSE}, N_use_recency)>> >>

ClassNames == {N__class, N__dict, N__doc, N__init, N__module}

\* the names dir(self) lists when the dimension list is assembled
AttributeNames ==
    ClassNames \cup {Assignments[i][1] : i \in 1..Len(Assignments)}

\* self.__getattribute__(attr)
GetAttribute(attr) ==
    IF \E i \in 1..Len(Assignments) : Assignments[i][1] = attr
    THEN Assignments[CHOOSE i \in 1..Len(Assignments) :
                         Assignments[i][1] = attr][2]
    ELSE ClassAttribute(attr)

\* Faulty variant of IsDimensionName: names that hold an underscore are left out.
IsDimensionName_NoUnderscore(attr) == ~Contains(attr, <<"_">>)

\* if '__' not in attr
IsDimensionName(attr) == ~Contains(attr, <<"_", "_">>)

\* [self.__getattribute__(attr) for attr in dir(self) if '__' not in attr]
Dimensions ==
    LET kept == SelectSeq(dir(AttributeNames), IsDimensionName)
    IN [i \in 1..Len(kept) |-> GetAttribute(kept[i])]

\* self.default_parameters, by position; units as in the dimensions
DefaultList ==
    <<"sum", S_mean_nn, 300, 266, 500, "Medium", FALSE, 565, 3, 2500, TRUE,
      "No", 500, TRUE>>

\* searchable_params = SearchableHyperparameters(): the object after __init__
searchable_params ==
    [dimensions |-> Dimensions, default_parameters |-> DefaultList]

\* use_named_args: the values of the list x under the names of the dimensions
NamedArgs(dims, x) ==
    [nm \in {dims[i].name : i \in 1..Len(dims)} |->
        x[CHOOSE i \in 1..Len(dims) : dims[i].name = nm]]

\* the value v lies in the domain of the dimension d
InDomain(d, v) ==
    IF d.kind = "Categorical" THEN v \in d.categories
    ELSE d.low <= v /\ v <= d.high

VARIABLES
    clock,            \* wall clock, in minutes (the checkpoint name's precision)
    files,            \* checkpoint files on disk, by the minute in their name
    pc,               \* position of the running invocation
    from_beginning,   \* --from_beginning
    duplicates,       \* fixed_params.duplicates
    checkpoint_path,  \* checkpoint_saver.checkpoint_path
    res,              \* the result object load(checkpoint_path) returned
    x0, y0,           \* the observations main() hands to the resumed gp_minimize
    n_calls,          \* gp_minimize's n_calls local
    n,                \* index of the optimisation loop
    n_initial_points, \* Optimizer._n_initial_points
    models,           \* number of observations the last surrogate was fit on (0: none)
    Xi, yi,           \* Optimizer.Xi, Optimizer.yi
    seeding,          \* TRUE while the initial points are evaluated and recorded
    next_x,           \* the vector under evaluation
    next_kind,        \* how next_x was chosen: "default", "random", "acq"
    params,           \* train()'s params dictionary
    recall,           \* train()'s return value
    next_y,           \* fitness()'s return value
    touched,          \* collaborators train() has called in this trial
    trials,           \* trials started so far, over all invocations
    proposed,         \* trials proposed by this invocation
    trainRuns,        \* train_model calls completed in this invocation
    inflight,         \* ordinals of the trials being evaluated
    evaluated,        \* records of the lineage whose evaluation completed
    created,          \* checkpoint files in the order of their creation
    resume_checkpoint_path, \* main()'s checkpoint_path = get_last_checkpoint()
    neighbor_sampler, \* fixed_params.neighbor_sampler
    item_id_type,     \* --item_id_type
    check_embedding,  \* --check_embedding
    model_saved,      \* the trial's model and parameters were saved to 'models'
    asked,            \* the vector as the optimizer proposed it
    seen,             \* (raw vector, established params) pairs of this process
    arg_dict,         \* the keyword arguments use_named_args builds from a list
    n_layers_args,    \* n_layers handed to generate_dataloaders and to ConvModel
    metrics           \* the recalls train() has computed, in their order

env == <<clock, files, created, trials, evaluated>>
opts == <<from_beginning, duplicates, checkpoint_path, neighbor_sampler,
          item_id_type, check_embedding>>
loaded == <<res, x0, y0, resume_checkpoint_path>>
optimizer == <<n_calls, n, n_initial_points, models, Xi, yi, seeding>>
trial == <<next_x, next_kind, params, recall, next_y, touched>>
ghost == <<proposed, trainRuns, inflight>>
trace == <<model_saved, asked, seen>>
space == <<arg_dict>>
locals == <<n_layers_args, metrics>>
vars == <<env, pc, opts, loaded, optimizer, trial, ghost, trace, space,
          locals>>

NoFile == [exists |-> FALSE, x_iters |-> <<>>, func_vals |-> <<>>]
\* a result file that holds no observation
EmptyResult == [exists |-> TRUE, x_iters |-> <<>>, func_vals |-> <<>>]
NoVector == [aggregator_type |-> <<>>, delta |-> 0, embed_dim |-> "",
             n_layers |-> 0, popularity_importance |-> ""]
NoParams == [aggregator_type |-> <<>>]
NoLayers == [generate_dataloaders |-> 0, ConvModel |-> 0]

Init ==
    /\ clock = 1
    /\ \E old \in {NoFile, EmptyResult} :
           /\ files = [m \in 0..MaxMinute |-> IF m = 0 THEN old ELSE NoFile]
           /\ created = IF old.exists THEN <<0>> ELSE <<>>
    /\ pc = "idle"
    /\ from_beginning = FALSE
    /\ duplicates = "keep_all"
    /\ checkpoint_path = 0
    /\ neighbor_sampler = "full"
    /\ item_id_type = DefaultItemIdType
    /\ check_embedding = DefaultCheckEmbedding
    /\ res = NoFile /\ x0 = <<>> /\ y0 = <<>>
    /\ resume_checkpoint_path = -1
    /\ model_saved = FALSE /\ asked = NoVector /\ seen = {}
    /\ arg_dict = <<>>
    /\ n_layers_args = NoLayers /\ metrics = <<>>
    /\ n_calls = 0 /\ n = 0 /\ n_initial_points = 0 /\ models = 0
    /\ Xi = <<>> /\ yi = <<>>
    /\ seeding = FALSE
    /\ next_x = NoVector /\ next_kind = "" /\ params = NoParams
    /\ recall = 0 /\ next_y = 0 /\ touched = {}
    /\ trials = 0
    /\ proposed = 0 /\ trainRuns = 0 /\ inflight = {}
    /\ evaluated = <<>>


(***************************************************************************)
(* train(): derived parameters and the consistency assertion.              *)
(***************************************************************************)
out_dim(e) ==
    CASE e = "Very Small" -> 32 [] e = "Small" -> 96 [] e = "Medium" -> 128
      [] e = "Large" -> 192 [] e = "Very Large" -> 256

hidden_dim(e) ==
    CASE e = "Very Small" -> 64 [] e = "Small" -> 192 [] e = "Medium" -> 256
      [] e = "Large" -> 384 [] e = "Very Large" -> 512

use_popularity(p) == p # "No"

\* in thousandths
weight_popularity(p) ==
    CASE p = "No" -> 0 [] p = "Small" -> 10 [] p = "Medium" -> 50
      [] p = "Large" -> 100

\* Faulty variant of days_popularity: the days are 7 whatever the importance.
days_popularity_Always(p) == 7

days_popularity(p) == IF p = "No" THEN 0 ELSE 7

\* Faulty variant of AggregatorSuffix: the suffix is appended whatever the mode.
AggregatorSuffix_Always(agg, dup) == agg \o S__edge

\* if fixed_params.duplicates == 'count_occurrence':
\*     params['aggregator_type'] += '_edge'
AggregatorSuffix(agg, dup) ==
    IF dup = "count_occurrence" THEN agg \o S__edge ELSE agg

\* params after "Establish hyperparameters", given the keyword arguments
Establish(raw, dup) ==
    [aggregator_type |-> AggregatorSuffix(raw.aggregator_type, dup),
     delta |-> raw.delta,
     embed_dim |-> raw.embed_dim,
     n_layers |-> raw.n_layers,
     popularity_importance |-> raw.popularity_importance,
     out_dim |-> out_dim(raw.embed_dim),
     hidden_dim |-> hidden_dim(raw.embed_dim),
     use_popularity |-> use_popularity(raw.popularity_importance),
     weight_popularity |-> weight_popularity(raw.popularity_importance),
     days_popularity |-> days_popularity(raw.popularity_importance)]

\* "Make sure graph data is consistent with message passing parameters"
ConsistencyAssert(p, dup) ==
    IF dup = "count_occurrence"
    THEN EndsWith(p.aggregator_type, S_edge)
    ELSE ~EndsWith(p.aggregator_type, S_edge)

\* Faulty variant of Objective: the recall is handed to the optimizer as it is.
Objective_NotNegated(r) == r

\* fitness(): return -recall
Objective(r) == -r

(***************************************************************************)
(* Checkpoint store.                                                       *)
(***************************************************************************)
\* File names 'checkpoint<date hh:mm>.pkl' are ordered as their minutes; minute
\* 0 is a file the folder held before the first invocation.
Checkpoints == {m \in 0..MaxMinute : files[m].exists}

\* src.utils.get_last_checkpoint: the most recent checkpoint
get_last_checkpoint == CHOOSE m \in Checkpoints : \A k \in Checkpoints : k <= m

\* Faulty variant of Dumped: the file holds the last observation only.
Dumped_LastOnly(X, y) ==
    [exists |-> TRUE, x_iters |-> <<X[Len(X)]>>, func_vals |-> <<y[Len(y)]>>]

\* skopt.dump(res, checkpoint_path): the result holds every observation
Dumped(X, y) == [exists |-> TRUE, x_iters |-> X, func_vals |-> y]

History(X, y) == [i \in 1..Len(X) |-> <<X[i], y[i]>>]

(***************************************************************************)
(* The arguments main() passes to gp_minimize.                             *)
(***************************************************************************)
\* x0 = res.x_iters
X0Of(r) == r.x_iters

\* Faulty variant of Y0Of: the stored objectives are turned back into recalls.
Y0Of_AsRecall(r) == [i \in 1..Len(r.func_vals) |-> 0 - r.func_vals[i]]

\* y0 = res.func_vals
Y0Of(r) == r.func_vals

\* Faulty variant of SeedVector: the first trial is not the declared default.
SeedVector_Other == CHOOSE x \in Space : x # default_parameters

\* x0=searchable_params.default_parameters
SeedVector == default_parameters

\* Faulty variant of FreshCalls: the seed is not counted in the budget.
FreshCalls_SeedNotCounted == NCalls + 1

\* n_calls=200 of the fresh gp_minimize
FreshCalls == NCalls

\* Faulty variant of ResumeInitialPoints: the workaround is left out and skopt's
\* default number of initial points is used.
ResumeInitialPoints_Default(k) == NInitialPoints

\* n_initial_points=-len(x0)
ResumeInitialPoints(k) == -k

\* Faulty variant of ResumeCalls: the budget of a resumed run is what is left of it.
ResumeCalls_Remaining(k) == IF NCalls > k THEN NCalls - k ELSE 0

\* n_calls=200 of the resumed gp_minimize; y0 is given, so base_minimize
\* does not subtract the initial points from it
ResumeCalls(k) == NCalls

Volatile ==
    /\ from_beginning' = FALSE
    /\ duplicates' = "keep_all"
    /\ checkpoint_path' = 0
    /\ neighbor_sampler' = "full"
    /\ item_id_type' = DefaultItemIdType
    /\ check_embedding' = DefaultCheckEmbedding
    /\ res' = NoFile /\ x0' = <<>> /\ y0' = <<>>
    /\ resume_checkpoint_path' = -1
    /\ model_saved' = FALSE /\ asked' = NoVector /\ seen' = {}
    /\ n_layers_args' = NoLayers /\ metrics' = <<>>
    /\ n_calls' = 0 /\ n' = 0 /\ n_initial_points' = 0 /\ models' = 0
    /\ Xi' = <<>> /\ yi' = <<>>
    /\ seeding' = FALSE
    /\ next_x' = NoVector /\ next_kind' = "" /\ params' = NoParams
    /\ recall' = 0 /\ next_y' = 0 /\ touched' = {}
    /\ proposed' = 0 /\ trainRuns' = 0 /\ inflight' = {}

(***************************************************************************)
(* main()                                                                  *)
(***************************************************************************)
\* time passes between invocations
Tick ==
    /\ pc = "idle"
    /\ clock < MaxMinute
    /\ clock' = clock + 1
    /\ UNCHANGED <<files, created, trials, evaluated, pc, opts, loaded,
                   optimizer, trial, ghost, trace>>
    /\ UNCHANGED <<space, locals>>

\* main() up to the choice of mode: options, FixedParameters, CheckpointSaver
MainStart(fb, dup, ns) ==
    /\ pc = "idle"
    /\ from_beginning' = fb
    /\ duplicates' = dup
    /\ neighbor_sampler' = ns
    /\ checkpoint_path' = clock
    /\ pc' = "main"
    /\ UNCHANGED <<env, item_id_type, check_embedding, loaded, optimizer,
                   trial, ghost, trace>>
    /\ UNCHANGED <<space, locals>>

\* if from_beginning: gp_minimize(..., x0=default_parameters, ...) up to the
\* evaluation of x0 (y0 = list(map(func, x0)))
GpMinimizeFresh ==
    /\ pc = "main"
    /\ from_beginning
    /\ trials < MaxTrials
    /\ IF FreshCalls < NInitialPoints + 1
       THEN /\ pc' = "failed"
            /\ UNCHANGED <<optimizer, trial, ghost, evaluated, trials, trace>>
       ELSE /\ n_calls' = FreshCalls
            /\ trials' = trials + 1
            /\ n_initial_points' = NInitialPoints + 1
            /\ seeding' = TRUE
            /\ next_x' = SeedVector
            /\ asked' = next_x'
            /\ next_kind' = "default"
            /\ proposed' = 1
            /\ inflight' = {1}
            /\ evaluated' = <<>>
            /\ pc' = "fitness"
            /\ UNCHANGED <<n, models, Xi, yi, params, recall, next_y, touched,
                           trainRuns, model_saved, seen>>
    /\ UNCHANGED <<clock, files, created, opts, loaded>>
    /\ UNCHANGED <<space, locals>>

\* Faulty variant of ResumeLoad: without a checkpoint the search starts afresh.
ResumeLoad_Fallback ==
    /\ pc = "main"
    /\ ~from_beginning
    /\ trials < MaxTrials
    /\ IF Checkpoints = {}
       THEN /\ n_calls' = NCalls
            /\ trials' = trials + 1
            /\ n_initial_points' = NInitialPoints + 1
            /\ seeding' = TRUE
            /\ next_x' = default_parameters
            /\ asked' = next_x'
            /\ next_kind' = "default"
            /\ proposed' = 1
            /\ inflight' = {1}
            /\ evaluated' = <<>>
            /\ pc' = "fitness"
            /\ UNCHANGED <<loaded, n, models, Xi, yi, params, recall, next_y,
                           touched, trainRuns, model_saved, seen>>
       ELSE /\ resume_checkpoint_path' = get_last_checkpoint
            /\ res' = files[resume_checkpoint_path']
            /\ x0' = X0Of(res')
            /\ y0' = Y0Of(res')
            /\ pc' = "loaded"
            /\ UNCHANGED <<trials, evaluated, optimizer, trial, ghost, trace>>
    /\ UNCHANGED <<clock, files, created, opts>>
    /\ UNCHANGED <<space, locals>>

\* Faulty variant of ResumeLoad: the oldest checkpoint of the folder is loaded.
ResumeLoad_Oldest ==
    /\ pc = "main"
    /\ ~from_beginning
    /\ \E readable \in BOOLEAN :
           IF Checkpoints = {} \/ ~readable
           THEN /\ pc' = "failed"
                /\ UNCHANGED loaded
           ELSE /\ resume_checkpoint_path' =
                       CHOOSE m \in Checkpoints : \A k \in Checkpoints : m <= k
                /\ res' = files[resume_checkpoint_path']
                /\ x0' = X0Of(res')
                /\ y0' = Y0Of(res')
                /\ pc' = "loaded"
    /\ UNCHANGED <<env, opts, optimizer, trial, ghost, trace>>
    /\ UNCHANGED <<space, locals>>

\* if not from_beginning: get_last_checkpoint() and load(); load raises when
\* the file cannot be read
ResumeLoad ==
    /\ pc = "main"
    /\ ~from_beginning
    /\ \E readable \in BOOLEAN :
           IF Checkpoints = {} \/ ~readable
           THEN /\ pc' = "failed"
                /\ UNCHANGED loaded
           ELSE /\ resume_checkpoint_path' = get_last_checkpoint
                /\ res' = files[resume_checkpoint_path']
                /\ x0' = X0Of(res')
                /\ y0' = Y0Of(res')
                /\ pc' = "loaded"
    /\ UNCHANGED <<env, opts, optimizer, trial, ghost, trace>>
    /\ UNCHANGED <<space, locals>>

\* gp_minimize(..., n_initial_points=-len(x0), x0=x0, y0=y0, ...) up to
\* result = optimizer.tell(x0, y0)
GpMinimizeResume ==
    /\ pc = "loaded"
    /\ IF \/ x0 = <<>>
          \/ Len(x0) # Len(y0)
          \/ NCalls < ResumeInitialPoints(Len(x0))
          \/ ResumeInitialPoints(Len(x0)) + Len(x0) < 0
       THEN /\ pc' = "failed"
            /\ UNCHANGED <<optimizer, evaluated>>
       ELSE /\ n_calls' = ResumeCalls(Len(x0))
            /\ n_initial_points' =
                   ResumeInitialPoints(Len(x0)) + Len(x0) - Len(y0)
            /\ models' = IF n_initial_points' <= 0 THEN Len(x0) ELSE 0
            /\ Xi' = x0
            /\ yi' = y0
            /\ seeding' = TRUE
            /\ evaluated' = History(x0, y0)
            /\ pc' = "callback"
            /\ UNCHANGED n
    /\ UNCHANGED <<clock, files, created, trials, opts, loaded, trial, ghost,
                   trace>>
    /\ UNCHANGED <<space, locals>>

(***************************************************************************)
(* fitness() and train(): one trial.                                       *)
(***************************************************************************)
\* Faulty variant of TrainEstablish: the dictionary of an evaluation is the one
\* an earlier evaluation of the same vector has left behind, renamed aggregator
\* included.
TrainEstablish_Accumulating ==
    /\ pc = "fitness"
    /\ LET before == {a \in seen : a[1] = next_x}
           agg == IF before = {} THEN next_x.aggregator_type
                  ELSE (CHOOSE a \in before : TRUE)[2].aggregator_type
       IN params' = Establish([next_x EXCEPT !.aggregator_type = agg],
                              duplicates)
    /\ seen' = seen \cup {<<next_x, params'>>}
    /\ pc' = IF ConsistencyAssert(params', duplicates) THEN "checked"
             ELSE "failed"
    /\ UNCHANGED <<env, opts, loaded, optimizer, next_x, next_kind, recall,
                   next_y, touched, ghost, model_saved, asked>>
    /\ UNCHANGED <<space, locals>>

\* fitness(**params) calls train(**{**fitness_params, **params}); train
\* establishes the hyperparameters and asserts their consistency
TrainEstablish ==
    /\ pc = "fitness"
    /\ params' = Establish(next_x, duplicates)
    /\ seen' = seen \cup {<<next_x, params'>>}
    /\ pc' = IF ConsistencyAssert(params', duplicates) THEN "checked"
             ELSE "failed"
    /\ UNCHANGED <<env, opts, loaded, optimizer, next_x, next_kind, recall,
                   next_y, touched, ghost, model_saved, asked>>
    /\ UNCHANGED <<space, locals>>

\* if fixed_params.neighbor_sampler == 'partial': params['n_layers'] = 3
ForceLayers(p, ns) ==
    IF ns = "partial" THEN [p EXCEPT !.n_layers = 3] ELSE p

\* vars(fixed_params), restricted to the attributes main() sets from options,
\* and the neighbor sampler
FixedParameters ==
    [duplicates |-> duplicates, item_id_type |-> item_id_type,
     neighbor_sampler |-> neighbor_sampler]

\* hp_sentence = params; hp_sentence.update(vars(fixed_params));
\* hp_sentence.update({'cuda': cuda}): the dictionary params itself is updated
Updated(p, d) ==
    [k \in DOMAIN p \cup DOMAIN d |-> IF k \in DOMAIN d THEN d[k] ELSE p[k]]

\* Faulty variant of TrainBuild: what train() writes to its dictionary is
\* written to the proposed vector as well.
TrainBuild_OnVector ==
    /\ pc = "checked"
    /\ touched' = touched \cup {"create_graph", "generate_dataloaders",
                                "ConvModel"}
    /\ n_layers_args' =
           [generate_dataloaders |-> params.n_layers,
            ConvModel |-> ForceLayers(params, neighbor_sampler).n_layers]
    /\ params' = Updated(Updated(ForceLayers(params, neighbor_sampler),
                                 FixedParameters),
                         [cuda |-> FALSE])
    /\ next_x' = [next_x EXCEPT !.aggregator_type = params'.aggregator_type,
                                !.n_layers = params'.n_layers]
    /\ pc' = "built"
    /\ UNCHANGED <<env, opts, loaded, optimizer, next_kind,
                   recall, next_y, ghost, trace>>
    /\ UNCHANGED space
    /\ UNCHANGED metrics

\* create_graph ... ConvModel, hp_sentence
TrainBuild ==
    /\ pc = "checked"
    /\ touched' = touched \cup {"create_graph", "generate_dataloaders",
                                "ConvModel"}
    /\ n_layers_args' =
           [generate_dataloaders |-> params.n_layers,
            ConvModel |-> ForceLayers(params, neighbor_sampler).n_layers]
    /\ params' = Updated(Updated(ForceLayers(params, neighbor_sampler),
                                 FixedParameters),
                         [cuda |-> FALSE])
    /\ pc' = "built"
    /\ UNCHANGED <<env, opts, loaded, optimizer, next_x, next_kind,
                   recall, next_y, ghost, trace>>
    /\ UNCHANGED space
    /\ UNCHANGED metrics

\* Faulty variant of TrainModel: the model is trained a second time.
TrainModel_Twice ==
    /\ pc = "built"
    /\ touched' = touched \cup {"train_model"}
    /\ trainRuns' = trainRuns + 2
    /\ pc' = "trained"
    /\ UNCHANGED <<env, opts, loaded, optimizer, next_x, next_kind, params,
                   recall, next_y, proposed, inflight>>
    /\ UNCHANGED trace
    /\ UNCHANGED <<space, locals>>

\* trained_model, viz, best_metrics = train_model(...)
TrainModel ==
    /\ pc = "built"
    /\ touched' = touched \cup {"train_model"}
    /\ trainRuns' = trainRuns + 1
    /\ pc' = "trained"
    /\ UNCHANGED <<env, opts, loaded, optimizer, next_x, next_kind, params,
                   recall, next_y, proposed, inflight>>
    /\ UNCHANGED trace
    /\ UNCHANGED <<space, locals>>

\* Faulty variant of TrainModelRaises: the error is caught and the trial is
\* given a recall of 0.
TrainModelRaises_Swallowed ==
    /\ pc = "built"
    /\ touched' = touched \cup {"train_model"}
    /\ recall' = 0
    /\ pc' = "tested"
    /\ UNCHANGED <<env, opts, loaded, optimizer, next_x, next_kind, params,
                   next_y, ghost>>
    /\ UNCHANGED trace
    /\ UNCHANGED <<space, locals>>

\* train_model(...) raises (device memory, ...): nothing catches it
TrainModelRaises ==
    /\ pc = "built"
    /\ touched' = touched \cup {"train_model"}
    /\ pc' = "failed"
    /\ UNCHANGED <<env, opts, loaded, optimizer, next_x, next_kind, params,
                   recall, next_y, ghost>>
    /\ UNCHANGED trace
    /\ UNCHANGED <<space, locals>>

\* the condition under which train() saves the model and its parameters:
\* inside "if check_embedding:", on the recall and fixed_params.item_id_type
SaveModel(ce, r, t) ==
    /\ ce > 0
    /\ \/ r > 8 /\ t = "SPECIFIC ITEM_IDENTIFIER"
       \/ r > 20 /\ t = "GENERAL ITEM_IDENTIFIER"

\* [data.ground_truth_purchase_test, data.ground_truth_test]
GroundTruths == <<"ground_truth_purchase_test", "ground_truth_test">>

\* Faulty variant of LastRecall: the recall of the first computation is kept.
LastRecall_First(ms) == ms[1].recall

\* for ground_truth in [data.ground_truth_purchase_test, data.ground_truth_test]:
\*     precision, recall, coverage = get_metrics_at_k(...)
\* leaves in recall the value of the last computation
LastRecall(ms) == ms[Len(ms)].recall

\* test metrics on the two ground truths, embedding analysis and model saving;
\* the recalls are of R
TrainTest(R) ==
    /\ pc = "trained"
    /\ \E r1, r2 \in R :
           /\ metrics' = <<[ground_truth |-> GroundTruths[1], recall |-> r1],
                           [ground_truth |-> GroundTruths[2], recall |-> r2]>>
           /\ recall' = LastRecall(metrics')
    /\ model_saved' = SaveModel(check_embedding, recall', item_id_type)
    /\ pc' = "tested"
    /\ UNCHANGED <<env, opts, loaded, optimizer, next_x, next_kind, params,
                   next_y, touched, ghost, asked, seen, n_layers_args>>
    /\ UNCHANGED space

\* fitness returns -recall: the objective of next_x is observed
FitnessReturn ==
    /\ pc = "tested"
    /\ next_y' = Objective(recall)
    /\ metrics' = <<>>
    /\ UNCHANGED n_layers_args
    /\ inflight' = {}
    /\ evaluated' = Append(evaluated, <<next_x, next_y'>>)
    /\ pc' = "tell"
    /\ UNCHANGED <<clock, files, created, trials, opts, loaded, optimizer,
                   next_x, next_kind, params, recall, touched, proposed,
                   trainRuns, trace>>
    /\ UNCHANGED space

(***************************************************************************)
(* skopt: base_minimize's loop, Optimizer.ask/tell, CheckpointSaver.       *)
(***************************************************************************)
\* Optimizer._ask: random sampling while initial points remain
Warmup(nip) == nip > 0

\* next_x = optimizer.ask(); func(next_x) is entered
Ask ==
    /\ pc = "ask"
    /\ n < n_calls
    /\ trials < MaxTrials
    /\ IF ~Warmup(n_initial_points) /\ models = 0
       THEN /\ pc' = "failed"
            /\ UNCHANGED <<trial, ghost, trials, trace, locals>>
       ELSE /\ \E x \in Space : next_x' = x
            /\ asked' = next_x'
            /\ model_saved' = FALSE
            /\ n_layers_args' = NoLayers
            /\ UNCHANGED <<seen, metrics>>
            /\ trials' = trials + 1
            /\ next_kind' = IF Warmup(n_initial_points) THEN "random"
                            ELSE "acq"
            /\ params' = NoParams
            /\ touched' = {}
            /\ proposed' = proposed + 1
            /\ inflight' = inflight \cup {proposed + 1}
            /\ pc' = "fitness"
            /\ UNCHANGED <<recall, next_y, trainRuns>>
    /\ UNCHANGED <<clock, files, created, evaluated, opts, loaded, optimizer>>
    /\ UNCHANGED space

\* result = optimizer.tell(next_x, next_y); for the seed of a fresh start,
\* n_calls -= len(y0) and optimizer.tell(x0, y0)
Tell ==
    /\ pc = "tell"
    /\ Xi' = Append(Xi, next_x)
    /\ yi' = Append(yi, next_y)
    /\ n_initial_points' = n_initial_points - 1
    /\ models' = IF n_initial_points' <= 0 THEN Len(Xi') ELSE models
    /\ n_calls' = IF seeding THEN n_calls - 1 ELSE n_calls
    /\ pc' = "callback"
    /\ UNCHANGED <<env, opts, loaded, n, seeding, trial, ghost, trace>>
    /\ UNCHANGED <<space, locals>>

\* Faulty variant of Callback: the checkpoint is written for the initial points only,
\* not after the trials of the loop.
Callback_SeedOnly ==
    /\ pc = "callback"
    /\ files' = IF seeding
                THEN [files EXCEPT ![checkpoint_path] = Dumped(Xi, yi)]
                ELSE files
    /\ created' = IF files[checkpoint_path].exists \/ ~seeding THEN created
                  ELSE Append(created, checkpoint_path)
    /\ n' = IF seeding THEN n ELSE n + 1
    /\ seeding' = FALSE
    /\ pc' = "ask"
    /\ UNCHANGED <<clock, trials, evaluated, opts, loaded, n_calls,
                   n_initial_points, models, Xi, yi, trial, ghost, trace>>
    /\ UNCHANGED <<space, locals>>

\* Faulty variant of Callback: a resumed invocation saves to the file it loaded.
Callback_ToLoaded ==
    /\ pc = "callback"
    /\ files' = [files EXCEPT ![IF from_beginning THEN checkpoint_path
                                ELSE resume_checkpoint_path] = Dumped(Xi, yi)]
    /\ created' = IF from_beginning /\ ~files[checkpoint_path].exists
                  THEN Append(created, checkpoint_path) ELSE created
    /\ n' = IF seeding THEN n ELSE n + 1
    /\ seeding' = FALSE
    /\ pc' = "ask"
    /\ UNCHANGED <<clock, trials, evaluated, opts, loaded, n_calls,
                   n_initial_points, models, Xi, yi, trial, ghost, trace>>
    /\ UNCHANGED <<space, locals>>

\* eval_callbacks(callbacks, result): checkpoint_saver dumps the result; the
\* loop goes on to its next index
Callback ==
    /\ pc = "callback"
    /\ files' = [files EXCEPT ![checkpoint_path] = Dumped(Xi, yi)]
    /\ created' = IF files[checkpoint_path].exists THEN created
                  ELSE Append(created, checkpoint_path)
    /\ n' = IF seeding THEN n ELSE n + 1
    /\ seeding' = FALSE
    /\ pc' = "ask"
    /\ UNCHANGED <<clock, trials, evaluated, opts, loaded, n_calls,
                   n_initial_points, models, Xi, yi, trial, ghost, trace>>
    /\ UNCHANGED <<space, locals>>

\* the loop has run n_calls times: gp_minimize returns, main logs the result
Return ==
    /\ pc = "ask"
    /\ n >= n_calls
    /\ pc' = "done"
    /\ UNCHANGED <<env, opts, loaded, optimizer, trial, ghost, trace>>
    /\ UNCHANGED <<space, locals>>

\* the process ends, normally or with the uncaught error
Exit ==
    /\ pc \in {"done", "failed"}
    /\ pc' = "idle"
    /\ Volatile
    /\ UNCHANGED env
    /\ UNCHANGED space

\* the process is killed while it runs
Crash ==
    /\ pc \notin {"idle", "done", "failed"}
    /\ pc' = "idle"
    /\ Volatile
    /\ UNCHANGED env
    /\ UNCHANGED space

Next ==
    \/ Tick
    \/ \E fb \in BOOLEAN, st \in Settings : MainStart(fb, st[1], st[2])
    \/ GpMinimizeFresh
    \/ ResumeLoad
    \/ GpMinimizeResume
    \/ Ask
    \/ TrainEstablish
    \/ TrainBuild
    \/ TrainModel
    \/ TrainModelRaises
    \/ TrainTest(Recalls)
    \/ FitnessReturn
    \/ Tell
    \/ Callback
    \/ Return
    \/ Exit
    \/ Crash

Spec == Init /\ [][Next]_vars

(***************************************************************************)
(* The search when nothing fails: every training run returns, the process  *)
(* is not killed, and a running process takes its next step.  An           *)
(* invocation is started only while the trials it may evaluate are within  *)
(* the trials of a behaviour.                                              *)
(***************************************************************************)
StartWithinBudget ==
    /\ trials + NCalls <= MaxTrials
    /\ \E fb \in BOOLEAN, st \in Settings : MainStart(fb, st[1], st[2])

Running ==
    \/ GpMinimizeFresh
    \/ ResumeLoad
    \/ GpMinimizeResume
    \/ Ask
    \/ TrainEstablish
    \/ TrainBuild
    \/ TrainModel
    \/ TrainTest(Recalls)
    \/ FitnessReturn
    \/ Tell
    \/ Callback
    \/ Return
    \/ Exit

FaultFreeNext ==
    \/ Tick
    \/ StartWithinBudget
    \/ Running

FaultFreeSpec == Init /\ [][FaultFreeNext]_vars /\ WF_vars(Running)

(***************************************************************************)
(* One evaluation of the objective, fitness(x), for every point x of the   *)
(* modelled dimensions and every setting of the options train() reads.     *)
(***************************************************************************)
\* the points of the modelled dimensions; delta at its bounds and its default
FullSpace ==
    [aggregator_type : AggregatorTypes,
     delta : {DeltaLow, default_parameters.delta, DeltaHigh},
     embed_dim : EmbedDims,
     n_layers : NLayersLow..NLayersHigh,
     popularity_importance : PopularityImportances]

\* --item_id_type: the default and the two values train() compares with
ItemIdTypes ==
    {DefaultItemIdType, "SPECIFIC ITEM_IDENTIFIER", "GENERAL ITEM_IDENTIFIER"}

\* --check_embedding: absent or given once
CheckEmbeddings == {DefaultCheckEmbedding, DefaultCheckEmbedding + 1}

\* test-set recalls, in percent, on both sides of the two thresholds
TrialRecalls == {8, 9, 20, 21}

\* the first call of fitness of an invocation, on any point
TrialInit ==
    /\ clock = 1
    /\ files = [m \in 0..MaxMinute |-> NoFile]
    /\ created = <<>>
    /\ pc = "fitness"
    /\ from_beginning = TRUE
    /\ duplicates \in Duplicates
    /\ neighbor_sampler \in NeighborSamplers
    /\ item_id_type \in ItemIdTypes
    /\ check_embedding \in CheckEmbeddings
    /\ checkpoint_path = 1
    /\ res = NoFile /\ x0 = <<>> /\ y0 = <<>>
    /\ resume_checkpoint_path = -1
    /\ n_calls = NCalls /\ n = 0 /\ n_initial_points = NInitialPoints + 1
    /\ models = 0
    /\ Xi = <<>> /\ yi = <<>>
    /\ seeding = TRUE
    /\ next_x \in FullSpace
    /\ asked = next_x
    /\ next_kind = "default" /\ params = NoParams
    /\ recall = 0 /\ next_y = 0 /\ touched = {}
    /\ trials = 1
    /\ proposed = 1 /\ trainRuns = 0 /\ inflight = {1}
    /\ evaluated = <<>>
    /\ model_saved = FALSE /\ seen = {}
    /\ arg_dict = <<>>
    /\ n_layers_args = NoLayers /\ metrics = <<>>

TrialNext ==
    \/ TrainEstablish
    \/ TrainBuild
    \/ TrainModel
    \/ TrainTest(TrialRecalls)
    \/ FitnessReturn

TrialSpec == TrialInit /\ [][TrialNext]_vars

(***************************************************************************)
(* The import of the module: the SearchableHyperparameters object is built *)
(* and fitness is decorated with its dimensions; use_named_args then turns *)
(* a list of values into keyword arguments.                                *)
(***************************************************************************)
\* lists of the search space: every value of five of the dimensions, the
\* others at their defaults
SampleLists ==
    { [DefaultList EXCEPT ![1] = h, ![2] = a, ![6] = e, ![9] = k, ![12] = q] :
        h \in {"mean", "sum", "max"}, a \in AggregatorTypes, e \in EmbedDims,
        k \in NLayersLow..NLayersHigh, q \in PopularityImportances }

\* before the module is imported
SpaceInit ==
    /\ clock = 1
    /\ files = [m \in 0..MaxMinute |-> NoFile]
    /\ created = <<>>
    /\ pc = "import"
    /\ from_beginning = FALSE
    /\ duplicates = "keep_all"
    /\ checkpoint_path = 0
    /\ neighbor_sampler = "full"
    /\ item_id_type = DefaultItemIdType
    /\ check_embedding = DefaultCheckEmbedding
    /\ res = NoFile /\ x0 = <<>> /\ y0 = <<>>
    /\ resume_checkpoint_path = -1
    /\ model_saved = FALSE /\ asked = NoVector /\ seen = {}
    /\ arg_dict = <<>>
    /\ n_layers_args = NoLayers /\ metrics = <<>>
    /\ n_calls = 0 /\ n = 0 /\ n_initial_points = 0 /\ models = 0
    /\ Xi = <<>> /\ yi = <<>>
    /\ seeding = FALSE
    /\ next_x = NoVector /\ next_kind = "" /\ params = NoParams
    /\ recall = 0 /\ next_y = 0 /\ touched = {}
    /\ trials = 0
    /\ proposed = 0 /\ trainRuns = 0 /\ inflight = {}
    /\ evaluated = <<>>

\* searchable_params = SearchableHyperparameters() and the decoration of fitness
Construct ==
    /\ pc = "import"
    /\ pc' = "constructed"
    /\ UNCHANGED <<env, opts, loaded, optimizer, trial, ghost, trace, space,
                   locals>>

\* the wrapper of use_named_args, called with a list x of the search space
UseNamedArgs ==
    /\ pc \in {"constructed", "named"}
    /\ \E x \in SampleLists \cup {searchable_params.default_parameters} :
           arg_dict' = NamedArgs(searchable_params.dimensions, x)
    /\ pc' = "named"
    /\ UNCHANGED <<env, opts, loaded, optimizer, trial, ghost, trace, locals>>

SpaceNext ==
    \/ Construct
    \/ UseNamedArgs

SpaceSpec == SpaceInit /\ [][SpaceNext]_vars

(***************************************************************************)
(* Properties.                                                             *)
(***************************************************************************)
\* a trial of this invocation is between its proposal and its observation
Evaluating == pc \in {"fitness", "checked", "built", "trained", "tested"}

\* the invocation runs in resume mode, past the load of a checkpoint that
\* holds observations
Resumed ==
    /\ ~from_beginning
    /\ pc \notin {"idle", "main", "loaded"}
    /\ res.exists /\ res.x_iters # <<>>

\* C1: the loop is sequential.  At most one trial is being evaluated, and
\* while trial N+1 is proposed or evaluated every earlier trial has been
\* observed, is in the observation history, and is in the checkpoint file.
C1_Sequential ==
    /\ Cardinality(inflight) <= 1
    /\ Evaluating =>
         /\ inflight = {proposed}
         /\ Len(Xi) = Len(x0) + proposed - 1
         /\ Len(yi) = Len(Xi)
         /\ Len(Xi) > 0 =>
              /\ files[checkpoint_path].exists
              /\ files[checkpoint_path].x_iters = Xi
              /\ files[checkpoint_path].func_vals = yi

\* a resumed invocation evaluates its second trial after the first was saved
C1_Witness ==
    /\ pc = "built"
    /\ ~from_beginning
    /\ proposed = 2
    /\ Len(files[checkpoint_path].x_iters) = Len(x0) + 1

\* C2: when a resume loads the history, every record of the lineage whose
\* evaluation had completed is in it, in order, except at most the last one.
C2_CrashLosesAtMostOne ==
    pc = "loaded" =>
        \A i \in 1..(Len(evaluated) - 1) :
            /\ i <= Len(x0)
            /\ i <= Len(y0)
            /\ <<x0[i], y0[i]>> = evaluated[i]

\* a crash has lost the trial that was evaluated but not yet saved
C2_Witness ==
    /\ pc = "loaded"
    /\ Len(x0) >= 1
    /\ Len(evaluated) = Len(x0) + 1

\* C3: a resume from K observations that has run M more trials holds
\* exactly K+M records, the first K being those of the loaded checkpoint.
C3_ResumeKeepsHistory ==
    (Resumed /\ pc \in {"callback", "ask", "done"}) =>
        /\ Len(Xi) = Len(res.x_iters) + proposed
        /\ Len(yi) = Len(Xi)
        /\ \A i \in 1..Len(res.x_iters) :
               /\ Xi[i] = res.x_iters[i]
               /\ yi[i] = res.func_vals[i]

\* a resumed invocation has finished its trials on top of a loaded history
C3_Witness ==
    /\ Resumed
    /\ pc = "done"
    /\ Len(res.x_iters) >= 1
    /\ proposed = NCalls
    /\ Len(Xi) = Len(res.x_iters) + NCalls

\* C4: in resume mode no warm-up trial remains once the loaded observations
\* are told, and every proposal is acquisition-guided by a surrogate that
\* was fit on the whole history, the loaded observations included.
C4_ResumeNoWarmup ==
    Resumed /\ pc # "failed" =>
        /\ n_initial_points <= 0
        /\ proposed >= 1 => next_kind = "acq"
        /\ Evaluating => models = Len(Xi) /\ models >= Len(res.x_iters)

\* the first proposal of a resumed invocation
C4_Witness ==
    /\ Resumed
    /\ pc = "fitness"
    /\ proposed = 1
    /\ Len(res.x_iters) >= 1
    /\ next_kind = "acq"

\* C5 as claimed: the budget counts the loaded records, so the history of a
\* resumed invocation never holds more than the configured number of trials.
C5_TotalWithinBudget ==
    Resumed => Len(Xi) <= NCalls /\ proposed <= NCalls - Len(res.x_iters)

\* C5, amended: a resumed invocation has a budget of its own.  It proposes
\* at most the configured number of new trials whatever the number of
\* loaded records, and it ends normally after exactly that many, with the
\* loaded records on top.
C5_BudgetPerInvocation ==
    Resumed =>
        /\ proposed <= NCalls
        /\ n_calls = NCalls
        /\ pc = "done" =>
             /\ proposed = NCalls
             /\ Len(Xi) = Len(res.x_iters) + NCalls

\* a resumed invocation ends with more records than the configured maximum
C5_Witness ==
    /\ Resumed
    /\ pc = "done"
    /\ Len(res.x_iters) >= 1
    /\ Len(Xi) > NCalls

\* records this invocation has appended to the history
Appended == IF Xi = <<>> THEN 0 ELSE Len(Xi) - Len(x0)

\* C6 as claimed: in every state the completed training runs of the
\* invocation are as many as the records it has appended.
C6_RunsEqualRecords == trainRuns = Appended

\* C6, amended: every appended record has exactly one completed training
\* run before it and the loaded records have none; the two counts are equal
\* except between the return of a training run and the append of its
\* record, where the run is one ahead.
C6_RunsLeadByAtMostOne ==
    IF pc \in {"trained", "tested", "tell"}
    THEN trainRuns = Appended + 1
    ELSE trainRuns = Appended

\* a resumed invocation is done: one run per new record, none for the loaded
C6_Witness ==
    /\ Resumed
    /\ pc = "done"
    /\ Len(x0) >= 1
    /\ trainRuns = NCalls
    /\ Appended = NCalls

\* C7: the objective recorded for a trial is the negated recall of its
\* training run: in the value fitness returns, in the history and in the
\* checkpoint.
C7_ObjectiveIsNegatedRecall ==
    /\ pc \in {"tell", "callback"} => next_y + recall = 0
    /\ (pc = "callback" /\ proposed >= 1) =>
           /\ yi[Len(yi)] + recall = 0
           /\ Xi[Len(Xi)] = next_x
    /\ (pc \in {"ask", "done"} /\ proposed >= 1) =>
           /\ files[checkpoint_path].func_vals = yi
           /\ yi[Len(yi)] + recall = 0

\* a recall of 20 percent is in the checkpoint as -20
C7_Witness ==
    /\ pc = "ask"
    /\ proposed >= 1
    /\ recall = 20
    /\ files[checkpoint_path].func_vals[Len(yi)] = -20

\* the checkpoint of a fresh start after its first trial
SeedCheckpoint ==
    (from_beginning /\ pc = "ask" /\ proposed = 1) =>
        /\ files[checkpoint_path].exists
        /\ files[checkpoint_path].x_iters = <<default_parameters>>
        /\ files[checkpoint_path].func_vals = <<0 - recall>>

C9_EdgeSuffixIffCountOccurrence ==
    /\ params # NoParams =>
           /\ next_x.aggregator_type \in AggregatorTypes
           /\ EndsWith(params.aggregator_type, S_edge)
                  <=> (duplicates = "count_occurrence")
    /\ pc = "fitness" => touched = {}
    /\ touched # {} =>
           /\ params # NoParams
           /\ ConsistencyAssert(params, duplicates)

\* pool_nn has become pool_nn_edge in count_occurrence mode and passed
C9_Witness ==
    /\ pc = "checked"
    /\ touched = {}
    /\ duplicates = "count_occurrence"
    /\ next_x.aggregator_type = S_pool_nn
    /\ params.aggregator_type = S_pool_nn \o S__edge

\* The consistency assertion of train() fails in no reachable state: the
\* case of C10 does not arise for the declared categories.
ConsistencyAssertNeverFails ==
    params # NoParams => ConsistencyAssert(params, duplicates)

\* the training run of the trial under evaluation has raised
TrainingFailed == pc = "failed" /\ "train_model" \in touched

\* C11: a training run that does not return ends the invocation.  The step
\* out of train_model that completes no run leads to the failed state and
\* leaves the history and the checkpoint files as they are; the failed
\* invocation then only exits: it appends no record for the failed trial,
\* writes no file, and starts no trial.
C11_TrialFailureIsFatal ==
    [][ /\ (pc = "built" /\ trainRuns' = trainRuns /\ pc' # "idle") =>
               /\ pc' = "failed"
               /\ Xi' = Xi /\ yi' = yi
               /\ files' = files
               /\ Len(Xi) = Len(x0) + proposed - 1
               /\ Len(Xi) > 0 => files[checkpoint_path] = Dumped(Xi, yi)
        /\ TrainingFailed =>
               /\ pc' = "idle"
               /\ files' = files
               /\ trials' = trials
               /\ evaluated' = evaluated ]_vars

\* the second trial of an invocation has failed; the first is in the file
C11_Witness ==
    /\ TrainingFailed
    /\ proposed = 2
    /\ Len(Xi) = Len(x0) + 1
    /\ files[checkpoint_path].x_iters = Xi

\* a resumed invocation that has nothing to resume from: no checkpoint, a
\* file that could not be read, or a result without observations
NothingToResume ==
    /\ ~from_beginning
    /\ pc \notin {"idle", "main"}
    /\ ~res.exists \/ res.x_iters = <<>>

\* C12: a resumed invocation with no checkpoint, an unreadable checkpoint or a
\* checkpoint of zero observations fails at startup: it is on its way to the
\* failure or in it, has proposed and evaluated no trial, holds no history,
\* and has not turned into a fresh start.
C12_NothingToResumeIsFatal ==
    NothingToResume =>
        /\ pc \in {"loaded", "failed"}
        /\ pc = "loaded" => res.exists
        /\ proposed = 0 /\ trainRuns = 0 /\ inflight = {}
        /\ Xi = <<>> /\ yi = <<>>
        /\ next_x = NoVector /\ touched = {}
        /\ ~seeding

\* the latest checkpoint holds zero observations and the resume has failed
C12_Witness ==
    /\ pc = "failed"
    /\ ~from_beginning
    /\ res = EmptyResult
    /\ x0 = <<>>

\* the folder holds no checkpoint at all / a checkpoint that was not readable
C12_NoCheckpointCase ==
    pc = "failed" /\ ~from_beginning /\ Checkpoints = {}
C12_UnreadableCase ==
    pc = "failed" /\ ~from_beginning /\ ~res.exists /\ Checkpoints # {}

\* C13: a resumed invocation loads the most recently created checkpoint of
\* those that exist when it starts: the file it reads is the last one
\* created, no existing checkpoint has a later name, and the result it holds
\* is that file's content.
C13_ResumeLoadsLatest ==
    pc = "loaded" =>
        /\ created # <<>>
        /\ resume_checkpoint_path = created[Len(created)]
        /\ \A m \in Checkpoints : m <= resume_checkpoint_path
        /\ res = files[resume_checkpoint_path]

\* two checkpoints exist, both written by invocations of the program, and an
\* invocation started in a later minute has loaded the second
C13_Witness ==
    /\ pc = "loaded"
    /\ Len(created) >= 2
    /\ files[created[Len(created) - 1]].x_iters # <<>>
    /\ resume_checkpoint_path = created[Len(created)]
    /\ res.x_iters # <<>>

\* a resumed invocation that has saved at least once
ResumedAndSaved == Resumed /\ Xi # <<>> /\ ~seeding

\* C14 as claimed: a lineage has one file, so that a resumed invocation saves
\* to the file it has loaded its history from.
C14_SingleFilePerLineage ==
    ResumedAndSaved => checkpoint_path = resume_checkpoint_path

\* C14, amended: an invocation has one file.  Its name is taken from the
\* clock when the invocation starts and does not change while it runs; every
\* save is made by the callback, writes the whole history to that file and
\* leaves every other file as it is; the file a resumed invocation loads is
\* never newer than its own.
C14_OneFilePerInvocation ==
    [][ /\ (pc = "idle" /\ pc' = "main") => checkpoint_path' = clock
        /\ (pc # "idle" /\ pc' # "idle") => checkpoint_path' = checkpoint_path
        /\ files' # files =>
               /\ pc = "callback"
               /\ \A m \in DOMAIN files :
                      m # checkpoint_path => files'[m] = files[m]
               /\ files'[checkpoint_path] = Dumped(Xi, yi)
        /\ (pc = "main" /\ pc' = "loaded") =>
               resume_checkpoint_path' <= checkpoint_path ]_vars

\* a resumed invocation has saved to a file of its own; the file it loaded is
\* still what it was
C14_Witness ==
    /\ ResumedAndSaved
    /\ checkpoint_path # resume_checkpoint_path
    /\ files[resume_checkpoint_path] = res
    /\ files[checkpoint_path] = Dumped(Xi, yi)
    /\ Len(Xi) > Len(x0)

\* C15: when no training run fails and the process is not killed, a
\* fresh-start invocation reaches the end of the search, and it does so
\* after exactly the configured number of evaluated trials, the seed among
\* them.
C15_FreshStartTerminates ==
    /\ (pc = "main" /\ from_beginning) ~>
           (pc = "done" /\ from_beginning /\ proposed = NCalls)
    /\ [](pc = "done" /\ from_beginning =>
             /\ proposed = NCalls
             /\ trainRuns = NCalls
             /\ Len(Xi) = NCalls
             /\ Xi[1] = default_parameters)

\* a fresh start has ended with the configured number of records, all saved
C15_Witness ==
    /\ pc = "done"
    /\ from_beginning
    /\ Len(Xi) = NCalls
    /\ Len(evaluated) = NCalls
    /\ files[checkpoint_path].x_iters = Xi

\* C16: when popularity_importance is 'No', the parameters train() works
\* with have use_popularity false, weight_popularity 0 and days_popularity
\* 0, whatever the other dimensions and the fixed parameters are, from the
\* expansion to the end of the trial.
C16_NoPopularity ==
    (params # NoParams /\ next_x.popularity_importance = "No") =>
        /\ params.use_popularity = FALSE
        /\ params.weight_popularity = 0
        /\ params.days_popularity = 0

\* a point other than the default one with popularity_importance 'No' has
\* been expanded and merged with the fixed parameters, the aggregator renamed
C16_Witness ==
    /\ pc = "built"
    /\ next_x.popularity_importance = "No"
    /\ next_x.aggregator_type = S_pool_nn
    /\ next_x.n_layers = NLayersHigh
    /\ duplicates = "count_occurrence"
    /\ neighbor_sampler = "partial"
    /\ params.days_popularity = 0
    /\ params.use_popularity = FALSE

AboveThreshold(r, t) ==
    \/ r > 8 /\ t \in {DefaultItemIdType, "SPECIFIC ITEM_IDENTIFIER"}
    \/ r > 20 /\ t = "GENERAL ITEM_IDENTIFIER"

\* C18: every trial whose test recall is above the threshold of its item
\* identifier has its model and parameters saved to 'models', whatever the
\* command-line options are.
C18_GoodModelsSaved ==
    (pc \in {"tested", "tell"} /\ AboveThreshold(recall, item_id_type)) =>
        model_saved

\* C19: within an invocation the saved list only grows at its end.  The
\* first save of an invocation holds the seed record (fresh start) or the
\* loaded records as they were loaded (resume); every later save holds the
\* list of the save before it, unchanged and in the same order, followed by
\* the record of the trial just evaluated.
C19_AppendOnly ==
    [][ files' # files =>
          LET old == files[checkpoint_path]
              new == files'[checkpoint_path]
              k == Len(old.x_iters)
          IN /\ new.exists
             /\ Len(new.func_vals) = Len(new.x_iters)
             /\ (seeding /\ from_beginning) =>
                    new.x_iters = <<asked>> /\ new.func_vals = <<next_y>>
             /\ (seeding /\ ~from_beginning) =>
                    new.x_iters = res.x_iters /\ new.func_vals = res.func_vals
             /\ ~seeding =>
                    /\ old.exists
                    /\ Len(new.x_iters) = k + 1
                    /\ SubSeq(new.x_iters, 1, k) = old.x_iters
                    /\ SubSeq(new.func_vals, 1, k) = old.func_vals
                    /\ new.x_iters[k + 1] = asked
                    /\ new.func_vals[k + 1] = next_y ]_vars

\* an invocation has saved at least twice: its file holds the first save's
\* records and one more for each trial of the loop
C19_Witness ==
    /\ pc = "ask"
    /\ ~seeding
    /\ n >= 1
    /\ Len(Xi) >= 2
    /\ files[checkpoint_path].x_iters = Xi
    /\ files[checkpoint_path].func_vals = yi

\* records the invocation has appended to the loaded ones
OwnRecords == IF Xi = <<>> THEN {} ELSE (Len(x0) + 1)..Len(Xi)

\* C20: the vector recorded for a trial is the vector the optimizer
\* proposed.  While a trial is evaluated and after it, the vector handed to
\* fitness is still the proposed one; the record appended and saved for it
\* is that vector; every record of the invocation is a point of the search
\* space, with the raw aggregator name and the raw n_layers and no derived
\* key; and the dictionary of a trial is expanded from its own proposed
\* vector alone.
C20_RecordedVectorIsProposed ==
    /\ (proposed >= 1 /\ pc # "idle") => next_x = asked
    /\ (proposed >= 1 /\ pc \in {"callback", "ask", "done"}) =>
           Xi[Len(Xi)] = asked
    /\ (proposed >= 1 /\ pc \in {"ask", "done"}) =>
           files[checkpoint_path].x_iters[Len(Xi)] = asked
    /\ \A i \in OwnRecords : Xi[i] \in Space
    /\ pc = "checked" => params = Establish(asked, duplicates)

\* a trial whose dictionary was renamed, forced to 3 layers and merged with
\* the fixed parameters has been recorded and saved as it was proposed
C20_Witness ==
    /\ pc = "ask"
    /\ proposed >= 2
    /\ duplicates = "count_occurrence"
    /\ neighbor_sampler = "partial"
    /\ asked.n_layers = NLayersHigh
    /\ params.n_layers = 3
    /\ params.aggregator_type = asked.aggregator_type \o S__edge
    /\ "neighbor_sampler" \in DOMAIN params
    /\ Xi[Len(Xi)] = asked
    /\ files[checkpoint_path].x_iters = Xi

\* the vector a dictionary of keyword arguments was made from lies in the
\* space: every dimension has a value, and it is in the dimension's domain
ArgsInDomains(dims, args) ==
    /\ DOMAIN args = {dims[i].name : i \in 1..Len(dims)}
    /\ \A i \in 1..Len(dims) : InDomain(dims[i], args[dims[i].name])

\* C21: once the object is built, its dimension list has 14 dimensions, all
\* of them search dimensions, whose names are the attribute names in
\* strictly ascending (alphabetical) order, hence pairwise distinct; the
\* default vector has one value for each, in that order, each in the domain
\* of its dimension; and the keyword arguments made from a list give every
\* name the value at its position.
C21_DimensionsAndDefault ==
    pc \in {"constructed", "named"} =>
        LET dims == searchable_params.dimensions
            dflt == searchable_params.default_parameters
        IN /\ Len(dims) = 14
           /\ \A i \in 1..Len(dims) :
                  dims[i].kind \in {"Categorical", "Real", "Integer"}
           /\ \A i, j \in 1..Len(dims) :
                  i < j => StrLess(dims[i].name, dims[j].name)
           /\ Len(dflt) = Len(dims)
           /\ \A i \in 1..Len(dims) : InDomain(dims[i], dflt[i])
           /\ pc = "named" => ArgsInDomains(dims, arg_dict)

\* the default list has been turned into keyword arguments: they are the
\* default parameters of the search loop, name by name
C21_Witness ==
    /\ pc = "named"
    /\ arg_dict = NamedArgs(searchable_params.dimensions, DefaultList)
    /\ arg_dict[N_aggregator_type] = default_parameters.aggregator_type
    /\ arg_dict[N_delta] = default_parameters.delta
    /\ arg_dict[N_embed_dim] = default_parameters.embed_dim
    /\ arg_dict[N_n_layers] = default_parameters.n_layers
    /\ arg_dict[N_popularity_importance] =
           default_parameters.popularity_importance
    /\ arg_dict[N_use_recency] = TRUE

\* the graph, the dataloaders and the model of the trial have been built
Built == pc \in {"built", "trained", "tested", "tell"}

\* C22: in every trial the number of layers handed to generate_dataloaders
\* is the number of layers ConvModel is built with, for every proposed
\* n_layers and every neighbor sampler.
C22_SameLayers ==
    Built => n_layers_args.generate_dataloaders = n_layers_args.ConvModel

\* the recall computed against the ground truth g
RecallAgainst(ms, g) ==
    ms[CHOOSE i \in 1..Len(ms) : ms[i].ground_truth = g].recall

\* C23: the recall a trial returns is the one computed against
\* data.ground_truth_test, the last of the two computations of the trial.
\* The test step computes two recalls, the one against the purchases first,
\* and leaves the second in recall; fitness returns the negation of that
\* value.
C23_ReturnedRecallIsTestRecall ==
    [][ /\ (pc = "trained" /\ pc' = "tested") =>
               /\ Len(metrics') = 2
               /\ metrics'[1].ground_truth = "ground_truth_purchase_test"
               /\ metrics'[2].ground_truth = "ground_truth_test"
               /\ recall' = RecallAgainst(metrics', "ground_truth_test")
        /\ (pc = "tested" /\ pc' = "tell") =>
               /\ recall = RecallAgainst(metrics, "ground_truth_test")
               /\ next_y' = 0 - RecallAgainst(metrics, "ground_truth_test") ]_vars

\* the two computations of a trial gave different recalls, and the trial
\* holds the one against data.ground_truth_test
C23_Witness ==
    /\ pc = "tested"
    /\ Len(metrics) = 2
    /\ RecallAgainst(metrics, "ground_truth_purchase_test") >
           RecallAgainst(metrics, "ground_truth_test")
    /\ recall = RecallAgainst(metrics, "ground_truth_test")

=============================================================================
